---- MODULE Spec2Model ----
(***************************************************************************)
(* Model of src/deploy.py: the backup / deploy / rollback sequence of      *)
(* deploy_repo, the manual rollback of main, the retry loop                *)
(* retry_operation, and the exclusion logic of read_gitignore and          *)
(* shutil.ignore_patterns as used by backup_artifacts and restore_backup.  *)
(*                                                                         *)
(* A directory tree is a function from file paths to file contents; a file *)
(* path is a sequence of names, a name a sequence of tokens (so that glob  *)
(* matching is computed, not tabulated).  Empty directories are not        *)
(* represented.  A directory on disk is a record [exists, files].          *)
(***************************************************************************)
EXTENDS Integers, Sequences, FiniteSets, TLC

\* ------------------------------------------------------------------ bounds
\* number of runs of main() in one behaviour
MaxRuns == 2
\* largest max_retries tried in the stand-alone retry specification
MaxN == 4

\* ------------------------------------------------------- program constants
\* retry_operation(operation, max_retries=3, delay=5)
DefaultMaxRetries == 3
DefaultDelay == 5

\* ------------------------------------------------------------------- names
GitName == <<".git">>
GitignoreName == <<".gitignore">>
AppName == <<"app">>
LogName == <<"out", ".log">>

\* file paths of the modelled universe (.git is a directory: HEAD lives in it)
PGit == <<GitName, <<"HEAD">>>>
PIgnore == <<GitignoreName>>
PApp == <<AppName>>
PLog == <<LogName>>
PSubIgnore == <<<<"sub">>, GitignoreName>>

\* possible contents of a .gitignore file, as lines of tokens; the content of
\* a .gitignore file in a tree is an index into this sequence
GitignoreFiles ==
  << << >>,
     << <<"#", "logs", "\n">>, <<"*", ".log", "\n">> >>,
     << <<"\n">>, <<" ", "#", "x", "\n">>, <<"app", " ", "\n">> >> >>

\* ------------------------------------------------------------------- trees
EmptyTree == [p \in {} |-> 0]

Restrict(t, S) == [p \in S |-> t[p]]

\* b written over a (files of b replace files of a)
Overlay(a, b) ==
  [p \in (DOMAIN a) \cup (DOMAIN b) |-> IF p \in DOMAIN b THEN b[p] ELSE a[p]]

NoDir == [exists |-> FALSE, files |-> EmptyTree]

Dir(t) == [exists |-> TRUE, files |-> t]

\* -------------------------------------------------- fnmatch / ignore_patterns
IsSpace(tok) == tok \in {" ", "\n"}

RECURSIVE LStrip(_)
LStrip(s) ==
  IF s # <<>> /\ IsSpace(Head(s)) THEN LStrip(Tail(s)) ELSE s

RECURSIVE RStrip(_)
RStrip(s) ==
  IF s # <<>> /\ IsSpace(s[Len(s)]) THEN RStrip(SubSeq(s, 1, Len(s) - 1)) ELSE s

\* str.strip()
Strip(s) == RStrip(LStrip(s))

\* fnmatch.fnmatch(name, pat) for patterns made of literal tokens and "*"
RECURSIVE Fnmatch(_, _)
Fnmatch(name, pat) ==
  IF pat = <<>> THEN name = <<>>
  ELSE IF Head(pat) = "*"
       THEN \E k \in 0..Len(name) : Fnmatch(SubSeq(name, k + 1, Len(name)), Tail(pat))
       ELSE /\ name # <<>>
            /\ Head(name) = Head(pat)
            /\ Fnmatch(Tail(name), Tail(pat))

\* read_gitignore: the stripped lines that are non-blank and do not start with #
KeepLine(line) == Strip(line) # <<>> /\ ~(line # <<>> /\ Head(line) = "#")

RECURSIVE LoadLines(_)
LoadLines(lines) ==
  IF lines = <<>> THEN <<>>
  ELSE (IF KeepLine(Head(lines)) THEN <<Strip(Head(lines))>> ELSE <<>>)
       \o LoadLines(Tail(lines))

read_gitignore(d) ==
  IF d.exists /\ PIgnore \in DOMAIN d.files
  THEN LoadLines(GitignoreFiles[d.files[PIgnore]])
  ELSE <<>>

SeqRange(s) == {s[i] : i \in DOMAIN s}

\* the always-applied patterns '.git', '.gitignore'
ImplicitPatterns == {GitName, GitignoreName}

\* a capture that forgets the patterns loaded from the ignore file
BackupPatterns_ImplicitOnly(ignore) == ImplicitPatterns

\* backup_artifacts: ignore_patterns('.git', '.gitignore', *ignore_patterns)
BackupPatterns(ignore) == ImplicitPatterns \cup SeqRange(ignore)

\* a copy that also skips the application file
RestorePatterns_SkipsApp == ImplicitPatterns \cup {AppName}

\* restore_backup and the staged copy: ignore_patterns('.git', '.gitignore')
RestorePatterns == ImplicitPatterns

\* shutil.ignore_patterns: a name is skipped when it matches some pattern
Ignored(pats, name) == \E q \in pats : Fnmatch(name, q)

\* copytree applies the ignore function in every directory it walks, so a file
\* is skipped when any component of its path is ignored
Excluded(pats, path) == \E i \in 1..Len(path) : Ignored(pats, path[i])

\* a copy that applies no ignore function
CopyFilter_Everything(t, pats) == t

CopyFilter(t, pats) == Restrict(t, {p \in DOMAIN t : ~Excluded(pats, p)})

\* ------------------------------------------------------------ shutil results
\* shutil.rmtree(d) that raised: the directory is still there with any part
\* of its files
RmtreeFailed(d) == {Dir(Restrict(d.files, S)) : S \in SUBSET (DOMAIN d.files)}

\* shutil.copytree(src, dst, ignore=pats) that raised after dst was created:
\* any part of the files to copy has arrived
CopytreeFailed(src, dst, pats) ==
  {Dir(Overlay(dst.files, Restrict(CopyFilter(src.files, pats), S))) :
     S \in SUBSET (DOMAIN CopyFilter(src.files, pats))}

CopytreeDone(src, dst, pats) == Dir(Overlay(dst.files, CopyFilter(src.files, pats)))


\* shutil.rmtree(path) on directory loc of f: the possible results
Rmtree(f, loc) ==
  IF ~f[loc].exists
  THEN {[fs |-> f, ok |-> FALSE, wrote |-> FALSE]}
  ELSE {[fs |-> [f EXCEPT ![loc] = NoDir], ok |-> TRUE, wrote |-> FALSE]}
       \cup {[fs |-> [f EXCEPT ![loc] = x], ok |-> FALSE, wrote |-> FALSE] :
               x \in RmtreeFailed(f[loc])}

\* shutil.copytree(src, dst, ignore=ignore_patterns(pats), dirs_exist_ok=deo):
\* the possible results.  It raises before writing when src is missing, when
\* dst exists and deo is false, and (SameFileError on every file) when src and
\* dst are the same directory.
Copytree(f, src, dst, pats, deo) ==
  IF \/ ~f[src].exists
     \/ f[dst].exists /\ ~deo
     \/ src = dst
  THEN {[fs |-> f, ok |-> FALSE, wrote |-> FALSE]}
  ELSE {[fs |-> [f EXCEPT ![dst] = CopytreeDone(f[src], f[dst], pats)],
         ok |-> TRUE, wrote |-> TRUE]}
       \cup {[fs |-> [f EXCEPT ![dst] = x], ok |-> FALSE, wrote |-> TRUE] :
               x \in CopytreeFailed(f[src], f[dst], pats)}
       \cup {[fs |-> f, ok |-> FALSE, wrote |-> FALSE]}

\* ------------------------------------------------------------- retry policy
\* a loop that runs once too often
RetryExhausted_OffByOne(done, max_retries) == done > max_retries

\* for attempt in range(max_retries): the loop is over once `done` attempts
\* have been made
RetryExhausted(done, max_retries) == done >= max_retries

\* ------------------------------------------------- commands and log texts
\* the values the token prompt can return
Tokens == {"tokA", "tokB"}

\* the repository URL and the branch entered at the prompts
GitUrl == <<"https://", "host/repo.git">>
Branch == "main"

\* git_url.replace("https://", f"https://{github_token}@")
RECURSIVE AuthUrl(_, _)
AuthUrl(url, token) ==
  IF url = <<>> THEN <<>>
  ELSE (IF Head(url) = "https://" THEN <<"https://", token, "@">> ELSE <<Head(url)>>)
       \o AuthUrl(Tail(url), token)

\* ["git", "ls-remote", "--heads", auth_git_url, branch]
LsRemoteCmd(token) == <<"git", "ls-remote", "--heads">> \o AuthUrl(GitUrl, token) \o <<Branch>>

\* ["git", "clone", "-b", branch, "--single-branch", auth_git_url, temp_clone_path]
CloneCmd(token) ==
  <<"git", "clone", "-b", Branch, "--single-branch">> \o AuthUrl(GitUrl, token) \o <<"temp">>

\* str(CalledProcessError): "Command '<cmd>' returned non-zero exit status n."
CalledProcessErrorText(cmd) == <<"Command">> \o cmd \o <<"returned non-zero exit status">>

\* str(ValueError) raised by clone_repo for a missing branch
BranchMissingText == <<"The branch", Branch, "does not exist in the remote repository.">>

\* a record of deployment.log: the source line of the logger call and the
\* text interpolated into its message
LogRecord(line, text) == [line |-> line, text |-> text]

\* ------------------------------------------------------------------- state
VARIABLES
  fs,               \* the three directories: "dest", "backup", "temp"
  baseDestIsDir,    \* os.path.isdir(base_destination_path)
  backupBaseIsDir,  \* os.path.isdir(backup_base_path)
  sameBase,         \* backup_base_path = base_destination_path
  pc,               \* position in main / deploy_repo
  rollbackArg,      \* args.rollback
  remoteHasBranch,  \* the remote has the requested branch
  remote,           \* the tree git clone produces for the branch
  attempt,          \* attempts made by the retry loop in progress
  ignore_patterns,  \* deploy_repo's local
  rollback_needed,  \* deploy_repo's local
  existed,          \* the branch taken at os.path.exists(destination_path)
  out,              \* messages printed (or the exception raised) by the run
  fs0,              \* history: fs when the run started
  events,           \* history: what the run has done so far
  snapPatterns,     \* history: the patterns of the capture that wrote the snapshot
  runs,             \* history: runs of main() started
  github_token,     \* the token entered at the prompt
  log,              \* records the run wrote to deployment.log from clone_repo's errors
  prev,             \* history: what the run before this one did
  rpc,              \* retry_operation alone: position in the function
  rn,               \* its max_retries argument
  rfirstok,         \* the invocation at which the operation first succeeds (0: never)
  rattempt,         \* the loop variable `attempt`
  rcalls,           \* invocations of the operation begun
  rended,           \* invocations of the operation ended
  rslept,           \* seconds slept
  rlast,            \* the last thing done: "none", "call" or "sleep"
  rlog,             \* the error records logged
  rresult           \* the value returned

mainVars ==
  <<fs, baseDestIsDir, backupBaseIsDir, sameBase, pc, rollbackArg, remoteHasBranch,
    remote, attempt, ignore_patterns, rollback_needed, existed, out, fs0, events,
    snapPatterns, runs, github_token, log, prev>>

retryVars ==
  <<rpc, rn, rfirstok, rattempt, rcalls, rended, rslept, rlast, rlog, rresult>>

vars == <<mainVars, retryVars>>

cfgVars == <<backupBaseIsDir, sameBase, github_token>>

\* history record of a run that did not deploy
NoPrev == [kind |-> "none", remote |-> EmptyTree, dest |-> NoDir, dest0 |-> NoDir, pats |-> <<>>]

\* backup_repo_path = os.path.join(backup_base_path, repo_name): the same path
\* as destination_path when the two base paths are the same
BackupLoc == IF sameBase THEN "dest" ELSE "backup"

\* -------------------------------------------------------- initial universes
\* a git checkout with an ignore file, a tree deployed by this script, a
\* tree whose ignore file names a literal and has a nested ignore file
DestTrees ==
  { (PGit :> 1) @@ (PIgnore :> 2) @@ (PApp :> 1) @@ (PLog :> 1),
    (PApp :> 1) @@ (PLog :> 1),
    (PIgnore :> 3) @@ (PApp :> 1) @@ (PSubIgnore :> 1) @@ (PLog :> 1) }

\* what git clone leaves in the staging directory
RemoteTrees ==
  { (PGit :> 1) @@ (PIgnore :> 2) @@ (PApp :> 2) @@ (PSubIgnore :> 1),
    (PGit :> 1) @@ (PApp :> 1) @@ (PLog :> 2) }

\* a snapshot left by an earlier run, with the patterns it was captured under
StaleSnapshots ==
  { [tree |-> (PApp :> 1) @@ (PLog :> 1), pats |-> <<>>],
    [tree |-> (PApp :> 2), pats |-> <<<<"*", ".log">>>>] }

\* a staging directory left by an earlier run
StaleStaging == { (PApp :> 2) }

RetryIdle ==
  /\ rpc = "off" /\ rn = 0 /\ rfirstok = 0 /\ rattempt = 0 /\ rcalls = 0
  /\ rended = 0 /\ rslept = 0 /\ rlast = "none" /\ rlog = <<>>
  /\ rresult = "none"

Init ==
  /\ baseDestIsDir \in BOOLEAN
  /\ backupBaseIsDir \in BOOLEAN
  /\ sameBase \in BOOLEAN
  /\ sameBase => (backupBaseIsDir = baseDestIsDir)
  /\ \E d \in {NoDir} \cup {Dir(t) : t \in DestTrees},
        s \in {[tree |-> EmptyTree, pats |-> <<>>]} \cup StaleSnapshots,
        t \in {NoDir} \cup {Dir(x) : x \in StaleStaging} :
       /\ ~baseDestIsDir => (d = NoDir /\ t = NoDir)
       /\ (~backupBaseIsDir \/ sameBase) => s.tree = EmptyTree
       /\ fs = [dest |-> d,
                backup |-> IF s.tree = EmptyTree THEN NoDir ELSE Dir(s.tree),
                temp |-> t]
       /\ snapPatterns = s.pats
  /\ pc = "idle"
  /\ rollbackArg = FALSE
  /\ remoteHasBranch = TRUE
  /\ remote = EmptyTree
  /\ attempt = 0
  /\ ignore_patterns = <<>>
  /\ rollback_needed = FALSE
  /\ existed = FALSE
  /\ out = {}
  /\ fs0 = fs
  /\ events = {}
  /\ runs = 0
  /\ github_token \in Tokens
  /\ log = {}
  /\ prev = NoPrev
  /\ RetryIdle


\* ------------------------------------------------------- retried operations
\* backup_artifacts.operation
BackupOperation(f, bloc, ignore) ==
  LET rm == IF f[bloc].exists
            THEN Rmtree(f, bloc)
            ELSE {[fs |-> f, ok |-> TRUE, wrote |-> FALSE]}
  IN  {r \in rm : ~r.ok}
      \cup UNION {Copytree(r.fs, "dest", bloc, BackupPatterns(ignore), FALSE) :
                    r \in {x \in rm : x.ok}}

\* a restore that moves the snapshot instead of copying it
RestoreOperation_MovesSnapshot(f, bloc) ==
  LET rm == IF f["dest"].exists
            THEN Rmtree(f, "dest")
            ELSE {[fs |-> f, ok |-> TRUE, wrote |-> FALSE]}
  IN  {r \in rm : ~r.ok}
      \cup UNION {{[fs |-> IF c.ok THEN [c.fs EXCEPT ![bloc] = NoDir] ELSE c.fs,
                    ok |-> c.ok, wrote |-> c.wrote] :
                     c \in Copytree(r.fs, bloc, "dest", RestorePatterns, TRUE)} :
                    r \in {x \in rm : x.ok}}

\* restore_backup.operation
RestoreOperation(f, bloc) ==
  LET rm == IF f["dest"].exists
            THEN Rmtree(f, "dest")
            ELSE {[fs |-> f, ok |-> TRUE, wrote |-> FALSE]}
  IN  {r \in rm : ~r.ok}
      \cup UNION {Copytree(r.fs, bloc, "dest", RestorePatterns, TRUE) :
                    r \in {x \in rm : x.ok}}

\* make_git_writable_and_remove(temp/.git): rmtree of the .git subtree
UnderGit(t) == {p \in DOMAIN t : Head(p) = GitName}

RemoveGitResults(f) ==
  LET t == f["temp"].files
  IN  IF UnderGit(t) = {}
      THEN {[fs |-> f, ok |-> FALSE]}
      ELSE {[fs |-> [f EXCEPT !["temp"] = Dir(Restrict(t, (DOMAIN t) \ UnderGit(t)))],
             ok |-> TRUE]}
           \cup {[fs |-> [f EXCEPT !["temp"] = Dir(Restrict(t, ((DOMAIN t) \ UnderGit(t)) \cup S))],
                  ok |-> FALSE] : S \in SUBSET UnderGit(t)}

\* a fetch that updates whatever the staging directory already holds and
\* keeps the files it finds there
CloneResults_KeepsLeftover(f, tree) ==
  {[fs |-> [f EXCEPT !["temp"] = Dir(Overlay(tree, f["temp"].files))], ok |-> TRUE],
   [fs |-> [f EXCEPT !["temp"] = Dir(f["temp"].files)], ok |-> FALSE]}

\* clone_repo after the branch check: makedirs(temp) if missing, then git
\* clone, which refuses a non-empty directory and on failure leaves the
\* directory it was given empty
CloneResults(f, tree) ==
  IF f["temp"].exists /\ f["temp"].files # EmptyTree
  THEN {[fs |-> f, ok |-> FALSE]}
  ELSE {[fs |-> [f EXCEPT !["temp"] = Dir(tree)], ok |-> TRUE],
        [fs |-> [f EXCEPT !["temp"] = Dir(EmptyTree)], ok |-> FALSE]}

\* a validation that forgets the backup base path
ConfigValid_DestOnly(bd, bb) == bd

\* deploy_repo's validation of the two base paths
ConfigValid(bd, bb) == bd /\ bb

\* ------------------------------------------------------------------ actions
duringRun == <<rollbackArg, remoteHasBranch, remote, fs0, runs, prev>>

\* history record of the run that has just ended: for a successful deploy its
\* report, the tree it fetched, the destination it left and the destination
\* and patterns it started from
RunSummary ==
  IF pc = "done" /\ ~rollbackArg /\ out \in {{"updated"}, {"cloned"}}
  THEN [kind |-> IF "updated" \in out THEN "updated" ELSE "cloned",
        remote |-> remote, dest |-> fs["dest"], dest0 |-> fs0["dest"],
        pats |-> ignore_patterns]
  ELSE NoPrev

\* main() with --rollback
MainRollback ==
  /\ pc \in {"idle", "done"}
  /\ runs < MaxRuns
  /\ runs' = runs + 1
  /\ rollbackArg' = TRUE
  /\ fs0' = fs
  /\ attempt' = 0
  /\ rollback_needed' = FALSE
  /\ ignore_patterns' = <<>>
  /\ existed' = FALSE
  /\ IF fs[BackupLoc].exists
     THEN /\ pc' = "restore"
          /\ events' = {"restore_invoked"}
          /\ out' = {}
     ELSE /\ pc' = "done"
          /\ events' = {}
          /\ out' = {"no_backup"}
  /\ log' = {}
  /\ prev' = RunSummary
  /\ UNCHANGED <<fs, baseDestIsDir, cfgVars, remoteHasBranch, remote, snapPatterns, retryVars>>

\* main() without --rollback: deploy_repo is entered
MainDeploy ==
  /\ pc \in {"idle", "done"}
  /\ runs < MaxRuns
  /\ runs' = runs + 1
  /\ rollbackArg' = FALSE
  /\ remoteHasBranch' \in BOOLEAN
  /\ remote' \in RemoteTrees
  /\ fs0' = fs
  /\ attempt' = 0
  /\ rollback_needed' = FALSE
  /\ ignore_patterns' = <<>>
  /\ existed' = FALSE
  /\ events' = {}
  /\ out' = {}
  /\ pc' = "verify"
  /\ log' = {}
  /\ prev' = RunSummary
  /\ UNCHANGED <<fs, baseDestIsDir, cfgVars, snapPatterns, retryVars>>

\* verify_git_installation
VerifyGit ==
  /\ pc = "verify"
  /\ \E installed \in BOOLEAN :
       IF installed
       THEN pc' = "validate" /\ out' = out
       ELSE pc' = "done" /\ out' = out \cup {"EnvironmentError"}
  /\ UNCHANGED <<fs, baseDestIsDir, cfgVars, duringRun, log, attempt, ignore_patterns,
                 rollback_needed, existed, events, snapPatterns, retryVars>>

\* the two isdir checks
Validate ==
  /\ pc = "validate"
  /\ IF ConfigValid(baseDestIsDir, backupBaseIsDir)
     THEN pc' = "read_ignore" /\ out' = out
     ELSE /\ pc' = "done"
          /\ out' = out \cup {IF ~baseDestIsDir THEN "base_dest_invalid"
                                                ELSE "base_backup_invalid"}
  /\ UNCHANGED <<fs, baseDestIsDir, cfgVars, duringRun, log, attempt, ignore_patterns,
                 rollback_needed, existed, events, snapPatterns, retryVars>>

\* ignore_patterns = read_gitignore(destination_path), then the branch on
\* os.path.exists(destination_path)
ReadGitignore ==
  /\ pc = "read_ignore"
  /\ ignore_patterns' = read_gitignore(fs["dest"])
  /\ existed' = fs["dest"].exists
  /\ pc' = IF fs["dest"].exists THEN "backup" ELSE "mkdir"
  /\ UNCHANGED <<fs, baseDestIsDir, cfgVars, duringRun, log, attempt, rollback_needed, out,
                 events, snapPatterns, retryVars>>

\* one attempt of retry_operation(operation) in backup_artifacts, and what
\* deploy_repo does with the result
BackupAttempt ==
  /\ pc = "backup"
  /\ \E r \in BackupOperation(fs, BackupLoc, ignore_patterns) :
       /\ fs' = r.fs
       /\ snapPatterns' = IF r.wrote THEN ignore_patterns ELSE snapPatterns
       /\ IF r.ok
          THEN /\ pc' = "clean"
               /\ attempt' = 0
               /\ events' = events \cup {"capture_ok"}
               /\ out' = out
          ELSE /\ events' = events
               /\ IF RetryExhausted(attempt + 1, DefaultMaxRetries)
                  THEN pc' = "done" /\ attempt' = 0 /\ out' = out \cup {"backup_failed"}
                  ELSE pc' = pc /\ attempt' = attempt + 1 /\ out' = out
  /\ UNCHANGED <<baseDestIsDir, cfgVars, duringRun, log, ignore_patterns, rollback_needed,
                 existed, retryVars>>

\* one attempt of retry_operation(lambda: shutil.rmtree(destination_path))
CleanAttempt ==
  /\ pc = "clean"
  /\ events' = events \cup {"removal_begun"}
  /\ \E r \in Rmtree(fs, "dest") :
       /\ fs' = r.fs
       /\ IF r.ok
          THEN pc' = "mkdir" /\ attempt' = 0 /\ out' = out
          ELSE IF RetryExhausted(attempt + 1, DefaultMaxRetries)
               THEN pc' = "done" /\ attempt' = 0 /\ out' = out \cup {"clean_failed"}
               ELSE pc' = pc /\ attempt' = attempt + 1 /\ out' = out
  /\ UNCHANGED <<baseDestIsDir, cfgVars, duringRun, log, ignore_patterns, rollback_needed,
                 existed, snapPatterns, retryVars>>

\* the except clause of either try block
Handler(f) ==
  /\ fs' = f
  /\ rollback_needed' = TRUE
  /\ out' = out \cup {IF existed THEN "failed_rollback" ELSE "failed"}
  /\ pc' = "rollback_check"

\* os.makedirs(destination_path)
MakeDest ==
  /\ pc = "mkdir"
  /\ \E ok \in BOOLEAN :
       IF ok /\ ~fs["dest"].exists
       THEN /\ fs' = [fs EXCEPT !["dest"] = Dir(EmptyTree)]
            /\ pc' = "clone"
            /\ UNCHANGED <<rollback_needed, out>>
       ELSE Handler(fs)
  /\ UNCHANGED <<baseDestIsDir, cfgVars, duringRun, log, attempt, ignore_patterns, existed,
                 events, snapPatterns, retryVars>>

\* the logger.error call of the except clause that handles clone_repo's
\* exception: line 181 in the update branch, line 202 in the first deploy
HandlerLogLine == IF existed THEN 181 ELSE 202

\* clone_repo, with branch_exists: git ls-remote fails (logged, taken as "no
\* such branch"), or answers; then git clone fails (logged, re-raised) or
\* succeeds.  The caller's except clause logs the exception it caught.
CloneRepo ==
  /\ pc = "clone"
  /\ \E reachable \in BOOLEAN :
       IF reachable /\ remoteHasBranch
       THEN \E r \in CloneResults(fs, remote) :
              IF r.ok
              THEN /\ fs' = r.fs
                   /\ pc' = "rmgit"
                   /\ events' = events \cup {"fetch_attempted", "fetch_ok"}
                   /\ UNCHANGED <<rollback_needed, out, log>>
              ELSE /\ Handler(r.fs)
                   /\ events' = events \cup {"fetch_attempted"}
                   /\ log' = log \cup
                        {LogRecord(127, CalledProcessErrorText(CloneCmd(github_token))),
                         LogRecord(HandlerLogLine,
                                   CalledProcessErrorText(CloneCmd(github_token)))}
       ELSE /\ Handler(fs)
            /\ events' = events \cup {"fetch_attempted", "branch_not_found"}
            /\ log' = log
                 \cup (IF reachable THEN {}
                       ELSE {LogRecord(88, CalledProcessErrorText(LsRemoteCmd(github_token)))})
                 \cup {LogRecord(133, <<Branch>>),
                       LogRecord(HandlerLogLine, BranchMissingText)}
  /\ UNCHANGED <<baseDestIsDir, cfgVars, duringRun, attempt, ignore_patterns, existed,
                 snapPatterns, retryVars>>

\* make_git_writable_and_remove(os.path.join(temp_clone_path, '.git'))
RemoveGit ==
  /\ pc = "rmgit"
  /\ \E r \in RemoveGitResults(fs) :
       IF r.ok
       THEN fs' = r.fs /\ pc' = "copy" /\ UNCHANGED <<rollback_needed, out>>
       ELSE Handler(r.fs)
  /\ UNCHANGED <<baseDestIsDir, cfgVars, duringRun, log, attempt, ignore_patterns, existed,
                 events, snapPatterns, retryVars>>

\* shutil.copytree(temp_clone_path, destination_path, ...)
CopyStaged ==
  /\ pc = "copy"
  /\ \E r \in Copytree(fs, "temp", "dest", RestorePatterns, TRUE) :
       IF r.ok
       THEN fs' = r.fs /\ pc' = "rmtemp" /\ UNCHANGED <<rollback_needed, out>>
       ELSE Handler(r.fs)
  /\ UNCHANGED <<baseDestIsDir, cfgVars, duringRun, log, attempt, ignore_patterns, existed,
                 events, snapPatterns, retryVars>>

\* shutil.rmtree(temp_clone_path) and the success report
RemoveTemp ==
  /\ pc = "rmtemp"
  /\ \E r \in Rmtree(fs, "temp") :
       IF r.ok
       THEN /\ fs' = r.fs
            /\ pc' = "rollback_check"
            /\ out' = out \cup {IF existed THEN "updated" ELSE "cloned"}
            /\ UNCHANGED rollback_needed
       ELSE Handler(r.fs)
  /\ UNCHANGED <<baseDestIsDir, cfgVars, duringRun, log, attempt, ignore_patterns, existed,
                 events, snapPatterns, retryVars>>

\* if rollback_needed and os.path.exists(backup_repo_path)
RollbackCheck ==
  /\ pc = "rollback_check"
  /\ IF rollback_needed /\ fs[BackupLoc].exists
     THEN pc' = "restore" /\ events' = events \cup {"restore_invoked"}
     ELSE pc' = "done" /\ events' = events
  /\ UNCHANGED <<fs, baseDestIsDir, cfgVars, duringRun, log, attempt, ignore_patterns,
                 rollback_needed, existed, out, snapPatterns, retryVars>>

\* what is printed once restore_backup has returned: its own failure report,
\* and in deploy_repo the unconditional completion report
AfterRestore(ok) ==
  (IF ok THEN {} ELSE {"restore_failed"})
  \cup (IF rollbackArg THEN {} ELSE {"rollback_completed"})

\* one attempt of retry_operation(operation) in restore_backup, and the
\* statements that follow the call
RestoreAttempt ==
  /\ pc = "restore"
  /\ \E r \in RestoreOperation(fs, BackupLoc) :
       /\ fs' = r.fs
       /\ baseDestIsDir' = (baseDestIsDir \/ r.fs["dest"].exists)
       /\ events' = events \cup (IF r.wrote THEN {"restore_wrote"} ELSE {})
       /\ IF r.ok
          THEN /\ pc' = "done"
               /\ attempt' = 0
               /\ out' = out \cup {"restored"} \cup AfterRestore(TRUE)
          ELSE IF RetryExhausted(attempt + 1, DefaultMaxRetries)
               THEN pc' = "done" /\ attempt' = 0 /\ out' = out \cup AfterRestore(FALSE)
               ELSE pc' = pc /\ attempt' = attempt + 1 /\ out' = out
  /\ UNCHANGED <<cfgVars, duringRun, log, ignore_patterns, rollback_needed, existed,
                 snapPatterns, retryVars>>

Next ==
  \/ MainRollback
  \/ MainDeploy
  \/ VerifyGit
  \/ Validate
  \/ ReadGitignore
  \/ BackupAttempt
  \/ CleanAttempt
  \/ MakeDest
  \/ CloneRepo
  \/ RemoveGit
  \/ CopyStaged
  \/ RemoveTemp
  \/ RollbackCheck
  \/ RestoreAttempt

Spec == Init /\ [][Next]_vars

TypeOK ==
  /\ pc \in {"idle", "verify", "validate", "read_ignore", "backup", "clean", "mkdir",
             "clone", "rmgit", "copy", "rmtemp", "rollback_check", "restore", "done"}
  /\ attempt \in 0..(DefaultMaxRetries - 1)
  /\ runs \in 0..MaxRuns
  /\ \A l \in {"dest", "backup", "temp"} : ~fs[l].exists => fs[l].files = EmptyTree


\* ------------------------------------------- retry_operation on its own
\* exceptions the operation can raise (all derive from Exception)
OpErrors == {"OSError", "shutil.Error"}

MainIdle ==
  /\ fs = [dest |-> NoDir, backup |-> NoDir, temp |-> NoDir]
  /\ baseDestIsDir = TRUE /\ backupBaseIsDir = TRUE /\ sameBase = FALSE
  /\ pc = "idle" /\ rollbackArg = FALSE /\ remoteHasBranch = TRUE
  /\ remote = EmptyTree /\ attempt = 0 /\ ignore_patterns = <<>>
  /\ rollback_needed = FALSE /\ existed = FALSE /\ out = {} /\ fs0 = fs
  /\ events = {} /\ snapPatterns = <<>> /\ runs = 0
  /\ github_token = "tokA" /\ log = {} /\ prev = NoPrev

InitRetry ==
  /\ MainIdle
  /\ rpc = "loop"
  /\ rn \in 0..MaxN
  /\ rfirstok \in 0..MaxN
  /\ rattempt = 0 /\ rcalls = 0 /\ rended = 0 /\ rslept = 0
  /\ rlast = "none" /\ rlog = <<>> /\ rresult = "none"

\* for attempt in range(max_retries): ... return False
RetryLoop ==
  /\ rpc = "loop"
  /\ IF RetryExhausted(rattempt, rn)
     THEN rpc' = "returned" /\ rresult' = "False" /\ rcalls' = rcalls
     ELSE rpc' = "call" /\ rresult' = rresult /\ rcalls' = rcalls + 1
  /\ UNCHANGED <<mainVars, rn, rfirstok, rattempt, rended, rslept, rlast, rlog>>

\* a loop that goes on after a successful invocation
RetryCall_NoReturn ==
  /\ rpc = "call"
  /\ rended' = rended + 1
  /\ rlast' = "call"
  /\ IF rcalls = rfirstok
     THEN rpc' = "loop" /\ rattempt' = rattempt + 1 /\ rresult' = rresult /\ rlog' = rlog
     ELSE /\ rpc' = "sleep"
          /\ rattempt' = rattempt
          /\ rresult' = rresult
          /\ \E e \in OpErrors :
               rlog' = Append(rlog, [error |-> e, attempt |-> rattempt + 1, of |-> rn])
  /\ UNCHANGED <<mainVars, rn, rfirstok, rcalls, rslept>>

\* operation() returns (return True) or raises (except Exception: logger.error)
RetryCall ==
  /\ rpc = "call"
  /\ rended' = rended + 1
  /\ rlast' = "call"
  /\ IF rcalls = rfirstok
     THEN rpc' = "returned" /\ rresult' = "True" /\ rlog' = rlog
     ELSE /\ rpc' = "sleep"
          /\ rresult' = rresult
          /\ \E e \in OpErrors :
               rlog' = Append(rlog, [error |-> e, attempt |-> rattempt + 1, of |-> rn])
  /\ UNCHANGED <<mainVars, rn, rfirstok, rattempt, rcalls, rslept>>

\* time.sleep(delay), then the next iteration
RetrySleep ==
  /\ rpc = "sleep"
  /\ rslept' = rslept + DefaultDelay
  /\ rlast' = "sleep"
  /\ rattempt' = rattempt + 1
  /\ rpc' = "loop"
  /\ UNCHANGED <<mainVars, rn, rfirstok, rcalls, rended, rlog, rresult>>

NextRetry ==
  \/ RetryLoop
  \/ RetryCall
  \/ RetrySleep

SpecRetry == InitRetry /\ [][NextRetry]_vars


\* ----------------------------------------------------------------- claims
\* a run of deploy_repo is in progress or has ended
DeployRun == runs >= 1 /\ ~rollbackArg

AllPaths == {PGit, PIgnore, PApp, PLog, PSubIgnore}

\* path p is the same (present with the same content, or absent) in a and b
SameAt(a, b, p) ==
  /\ (p \in DOMAIN a.files) <=> (p \in DOMAIN b.files)
  /\ (p \in DOMAIN a.files) => a.files[p] = b.files[p]

\* p is or lies under .git or .gitignore
IsVcsPath(p) == \E i \in 1..Len(p) : p[i] \in {GitName, GitignoreName}

\* some component of p matches one of the loaded patterns
MatchesLoaded(p, loaded) ==
  \E i \in 1..Len(p) : \E j \in 1..Len(loaded) : Fnmatch(p[i], loaded[j])

\* C1: when the requested branch does not exist remotely, a deploy_repo run
\* never changes the destination directory: at every point of the run it is
\* what it was when the run started.
C1_NoDestMutationWhenBranchMissing ==
  (DeployRun /\ ~remoteHasBranch) => fs["dest"] = fs0["dest"]

\* C2: a run that captured a snapshot, began removing the destination and did
\* not succeed has invoked restore_backup by the time it ends.
C2_FailureAfterRemovalRestores ==
  (pc = "done" /\ DeployRun /\ "capture_ok" \in events /\ "removal_begun" \in events
     /\ "updated" \notin out)
  => "restore_invoked" \in events

\* C3: when a deploy over an existing destination fails and restore_backup
\* succeeds, the destination ends the run equal to what it was at the start
\* on every path that neither the loaded patterns nor .git/.gitignore exclude.
C3_RollbackRoundTrip ==
  (pc = "done" /\ DeployRun /\ existed /\ rollback_needed /\ "restored" \in out)
  => /\ fs["dest"].exists
     /\ \A p \in AllPaths :
          (~IsVcsPath(p) /\ ~MatchesLoaded(p, ignore_patterns))
          => SameAt(fs["dest"], fs0["dest"], p)

C3_Witness ==
  /\ pc = "done" /\ DeployRun /\ existed /\ rollback_needed /\ "restored" \in out
  /\ "fetch_ok" \in events
  /\ PApp \in DOMAIN fs["dest"].files
  /\ PIgnore \in DOMAIN fs0["dest"].files
  /\ fs["dest"] # fs0["dest"]

\* C4: the rollback-completed report is printed only when restore_backup
\* succeeded, never together with the restore-failed report.
C4_RolledBackOnlyIfRestored ==
  "rollback_completed" \in out => ("restored" \in out /\ "restore_failed" \notin out)

\* C5: removal of the destination begins only after the fetch into the staging
\* path has succeeded.
C5_FetchBeforeRemoval ==
  "removal_begun" \in events => "fetch_ok" \in events

\* C6: in a run that started without a destination no snapshot is captured and
\* restore_backup is never invoked, whatever the backup path held.
C6_FirstDeployNeverRestores ==
  (DeployRun /\ ~fs0["dest"].exists)
  => ("capture_ok" \notin events /\ "restore_invoked" \notin events)

\* C7: retry_operation on an operation that fails at every invocation invokes
\* it exactly max_retries times, never two at once, and returns False.
C7_ExhaustedAfterMaxRetries ==
  /\ rcalls - rended \in {0, 1}
  /\ (rpc = "returned" /\ Len(rlog) = rended)
     => (rcalls = rn /\ rended = rn /\ rresult = "False")

C7_Witness ==
  /\ rpc = "returned" /\ rn = DefaultMaxRetries /\ Len(rlog) = rended
  /\ rcalls = DefaultMaxRetries /\ rresult = "False"

\* C8: a run that ends with the backup-failed report has not invoked rollback,
\* fetch or destination removal, and its destination is what it was at the
\* start.
C8_BackupFailedLeavesDest ==
  "backup_failed" \in out
  => /\ fs["dest"] = fs0["dest"]
     /\ events \cap {"restore_invoked", "fetch_attempted", "removal_begun"} = {}

\* C9: a deploy_repo run with a base destination or base backup path that is
\* not a directory changes no directory and attempts no capture, fetch,
\* removal or rollback, and when it reaches the validation it ends there with
\* the configuration error.
C9_InvalidConfigTouchesNothing ==
  (DeployRun /\ ~(baseDestIsDir /\ backupBaseIsDir))
  => /\ fs = fs0
     /\ events = {}
     /\ pc \in {"verify", "validate", "done"}
     /\ pc = "done" => out \in {{"EnvironmentError"}, {"base_dest_invalid"},
                                {"base_backup_invalid"}}

C9_Witness ==
  /\ pc = "done" /\ DeployRun /\ ~backupBaseIsDir /\ baseDestIsDir
  /\ out = {"base_backup_invalid"}
  /\ fs["dest"].exists

\* the tree has no .git / .gitignore path and no path matching a loaded pattern
CleanTree(t, loaded) ==
  \A p \in DOMAIN t : ~IsVcsPath(p) /\ ~MatchesLoaded(p, loaded)

\* C10: the snapshot at the backup path, and a destination written by restore,
\* contain no .git or .gitignore and no path excluded by the patterns loaded
\* when the snapshot was captured.
C10_SnapshotAndRestoreClean ==
  /\ (~sameBase /\ fs["backup"].exists) => CleanTree(fs["backup"].files, snapPatterns)
  /\ "restore_wrote" \in events => CleanTree(fs["dest"].files, snapPatterns)

C10_Witness ==
  /\ pc = "done" /\ "capture_ok" \in events /\ "restore_wrote" \in events
  /\ snapPatterns # <<>>
  /\ PGit \in DOMAIN fs0["dest"].files
  /\ PLog \in DOMAIN fs0["dest"].files
  /\ fs["dest"].files # EmptyTree

\* the token occurs in the interpolated text of the record
MentionsToken(r, token) == \E i \in 1..Len(r.text) : r.text[i] = token

\* C11: no record written to the log contains the GitHub token, also in runs
\* whose branch check or clone fails, so that the log does not depend on the
\* token.
C11_TokenNeverLogged ==
  \A r \in log : ~MentionsToken(r, github_token)

\* C12: no attempt of the capture changes the directory it copies from, and
\* no attempt of the restore changes the snapshot it copies from.
C12_SourceSideReadOnly ==
  [][/\ pc = "backup" => fs'["dest"] = fs["dest"]
     /\ pc = "restore" => fs'[BackupLoc] = fs[BackupLoc]]_vars

\* the status the process ends with: main() returns normally from every
\* outcome of deploy_repo and of the manual rollback; only the exception of
\* verify_git_installation leaves main() by propagating
ExitStatus == IF "EnvironmentError" \in out THEN 1 ELSE 0

\* C15: a run that ends with a configuration error, or with a rollback whose
\* restore failed, exits non-zero; a successful deploy exits with zero.
C15_ExitStatusTellsFailure ==
  pc = "done"
  => /\ (out \cap {"base_dest_invalid", "base_backup_invalid", "restore_failed"} # {})
        => ExitStatus # 0
     /\ (out \cap {"updated", "cloned"} # {}) => ExitStatus = 0

\* C16: in a run that started with a destination, the destination differs
\* from what it was at the start only after a capture has succeeded in the
\* same run.
C16_NoChangeBeforeCapture ==
  (DeployRun /\ fs0["dest"].exists /\ fs["dest"] # fs0["dest"])
  => "capture_ok" \in events

\* C17: when deploy_repo has returned, the staging directory does not exist
\* (stated for runs that started without one).
C17_StagingGoneAtReturn ==
  (pc = "done" /\ DeployRun /\ ~fs0["temp"].exists) => ~fs["temp"].exists

\* C18: retry_operation does not sleep after the last failed attempt: when it
\* returns False, the last thing it did was not a sleep.
C18_NoSleepAfterLastAttempt ==
  (rpc = "returned" /\ rresult = "False") => rlast # "sleep"

\* C13: a successful update that fetches the same tree as the successful
\* deploy of the run before it leaves the same destination as that run did.
C13_SameBranchTwice ==
  (pc = "done" /\ DeployRun /\ out = {"updated"} /\ prev.kind # "none"
     /\ prev.remote = remote)
  => fs["dest"] = prev.dest

C13_Witness ==
  /\ pc = "done" /\ DeployRun /\ out = {"updated"} /\ prev.kind = "cloned"
  /\ prev.remote = remote
  /\ fs0["dest"] = prev.dest
  /\ PLog \in DOMAIN fs["dest"].files

\* C14: a successful deploy that started without a destination ends with the
\* destination holding exactly the fetched files that are not .git or
\* .gitignore paths, and has captured nothing: the backup directory is what
\* it was.
C14_FirstDeployResult ==
  (pc = "done" /\ DeployRun /\ "cloned" \in out)
  => /\ ~fs0["dest"].exists
     /\ fs["dest"].exists
     /\ \A p \in AllPaths :
          IF IsVcsPath(p)
          THEN p \notin DOMAIN fs["dest"].files
          ELSE /\ (p \in DOMAIN fs["dest"].files) <=> (p \in DOMAIN remote)
               /\ (p \in DOMAIN remote) => fs["dest"].files[p] = remote[p]
     /\ "capture_ok" \notin events
     /\ ~sameBase => fs["backup"] = fs0["backup"]

C14_Witness ==
  /\ pc = "done" /\ DeployRun /\ "cloned" \in out
  /\ PIgnore \in DOMAIN remote
  /\ PApp \in DOMAIN fs["dest"].files
  /\ ~fs["backup"].exists

\* C19: retry_operation returns True at the first invocation that succeeds:
\* the operation has then been invoked exactly that many times, one failure
\* has been logged for each earlier invocation with its attempt number, and
\* nothing is invoked afterwards; a success within max_retries is never lost.
C19_StopsAtFirstSuccess ==
  /\ rresult = "True"
     => (rpc = "returned" /\ rcalls = rfirstok /\ rended = rfirstok
         /\ Len(rlog) = rfirstok - 1)
  /\ (rpc = "returned" /\ rfirstok \in 1..rn) => rresult = "True"
  /\ \A i \in 1..Len(rlog) : rlog[i].attempt = i

C19_Witness ==
  /\ rpc = "returned" /\ rresult = "True" /\ rfirstok = 2 /\ rn = DefaultMaxRetries
  /\ rcalls = 2 /\ Len(rlog) = 1

\* C20: after a successful update the snapshot holds the pre-deploy content of
\* every path not excluded; a manual rollback that follows and succeeds puts
\* that content back in the destination, and never changes the snapshot; a
\* manual rollback without a snapshot reports it and changes nothing.
C20_ManualRollbackAfterUpdate ==
  /\ (pc = "done" /\ DeployRun /\ out = {"updated"})
     => /\ fs["backup"].exists
        /\ \A p \in AllPaths :
             (~IsVcsPath(p) /\ ~MatchesLoaded(p, ignore_patterns))
             => SameAt(fs["backup"], fs0["dest"], p)
  /\ (rollbackArg /\ prev.kind = "updated") => fs["backup"] = fs0["backup"]
  /\ (pc = "done" /\ rollbackArg /\ prev.kind = "updated" /\ "restored" \in out)
     => /\ fs["dest"].exists
        /\ \A p \in AllPaths :
             (~IsVcsPath(p) /\ ~MatchesLoaded(p, prev.pats))
             => SameAt(fs["dest"], prev.dest0, p)
  /\ (rollbackArg /\ "no_backup" \in out) => (pc = "done" /\ fs = fs0)

C20_Witness ==
  /\ pc = "done" /\ rollbackArg /\ prev.kind = "updated" /\ "restored" \in out
  /\ fs["dest"] # fs0["dest"]
  /\ PApp \in DOMAIN fs["dest"].files
  /\ prev.pats # <<>>

====
